---- MODULE Spec2Model ----
(***************************************************************************)
(* Ant colony optimisation of ant-foraging/src: the graph environment with *)
(* its pheromone field (environment.py), the ant agent (agent.py) and the  *)
(* round loop of run_simulation (ant_foraging_simulation.py).              *)
(*                                                                         *)
(* Numbers.  Distances and path lengths are whole numbers of distance      *)
(* units.  Pheromone intensities, deposit amounts and mean lengths are     *)
(* fixed-point numbers counted in 1/Unit, products and quotients being     *)
(* truncated where the floats of the source are rounded.  float('inf') is  *)
(* the number Inf, larger than every length the model can build.           *)
(*                                                                         *)
(* Python dicts keep insertion order and the code iterates over them, so a *)
(* neighbour dict is a sequence of <<key, value>> pairs in insertion       *)
(* order.  The pheromone dict is only read by key and updated entry by     *)
(* entry, so it is a function on the set of the tracked directed edges.    *)
(***************************************************************************)
EXTENDS Integers, Sequences, FiniteSets, TLC

\* ------------------------------------------------------------------ bounds
\* ants per round and rounds of run_simulation
NumAnts == 2
NumIterations == 2
\* calls made on an environment by its callers
MaxCalls == 3
\* random.random() draws one of 0 / RGrid .. (RGrid - 1) / RGrid
RGrid == 4

\* 1.0 as a fixed-point number, and float('inf')
Unit == 10 ^ 4
Inf == 10 ^ 9

\* num_nodes handed to run_simulation and create_random_graph
NodeCounts == {1, 2, 3}
\* the node identifiers these graphs use
Nodes == UNION {0 .. (n - 1) : n \in NodeCounts}
\* random.uniform(1.0, max_distance): the distances a generated graph can get
Dists == {1, 2}
\* the distances handed to add_edge by a caller of the environment
AnyDists == {0, 1, 2}
\* initial_pheromone handed to the constructor: 0 and the default 0.1
InitialPheromones == {0, Unit \div 10}
\* <<evaporation_rate (per cent), initial_pheromone>> handed to the constructor:
\* the defaults, and the rate of run_simulation with a low initial pheromone
EnvConfigs == {<<10, Unit \div 10>>, <<20, Unit \div 200>>}
\* amounts handed to deposit_pheromone
Amounts == {Unit}

\* ------------------------------------------------------------------- state
\* env: the AntColonyEnvironment; ants: the AntAgent objects of the round;
\* status: what each ant's last step returned (ret) and what the step before
\* it returned (prev), "new" standing for no step yet;
\* last: the last call made, its arguments and what it returned.
\* History variables: evaporated (an evaporate ran since the last add_edge),
\* ncalls (calls made on the environment), forward (each ant's path at the
\* moment it found food).
\* run_simulation: num_nodes, history, and its position: pc, iteration (the outer loop),
\* sweep (the loop over range(max_steps)), cursor (the loop over ants) and
\* all_done.
VARIABLES env, last, evaporated, ncalls, ants, status, forward,
          num_nodes, history, pc, iteration, sweep, cursor, all_done

\* ------------------------------------------------------- insertion-ordered dict
DictKeys(d) == {d[i][1] : i \in 1 .. Len(d)}

DictGet(d, k) == d[CHOOSE i \in 1 .. Len(d) : d[i][1] = k][2]

DictPut(d, k, v) ==
    IF k \in DictKeys(d)
    THEN [i \in 1 .. Len(d) |-> IF d[i][1] = k THEN <<k, v>> ELSE d[i]]
    ELSE Append(d, <<k, v>>)

Max(a, b) == IF a >= b THEN a ELSE b

\* ------------------------------------------------------------- environment.py

\* AntColonyEnvironment.__init__
NewEnvironment(evaporation_rate, initial_pheromone) ==
    [evaporation_rate |-> evaporation_rate,
     initial_pheromone |-> initial_pheromone,
     graph |-> <<>>,
     pheromone |-> <<>>,
     nest |-> -1,
     food_nodes |-> {}]

\* add_node on the graph dict
AddNodeGraph(graph, node) ==
    IF node \in DOMAIN graph THEN graph ELSE (node :> <<>>) @@ graph

add_node(e, node) == [e EXCEPT !.graph = AddNodeGraph(e.graph, node)]

AddEdgeGraphOneWay(graph, from_node, to_node, distance) ==
    LET g2 == AddNodeGraph(AddNodeGraph(graph, from_node), to_node)
    IN  [g2 EXCEPT ![from_node] = DictPut(@, to_node, distance)]

AddEdgeGraph(graph, from_node, to_node, distance) ==
    LET g2 == AddNodeGraph(AddNodeGraph(graph, from_node), to_node)
        g3 == [g2 EXCEPT ![from_node] = DictPut(@, to_node, distance)]
    IN  [g3 EXCEPT ![to_node] = DictPut(@, from_node, distance)]

\* add_edge without the pheromone entry of the direction to_node -> from_node
AddEdgePheromoneForwardOnly(pheromone, from_node, to_node, initial_pheromone) ==
    (<<from_node, to_node>> :> initial_pheromone) @@ pheromone

AddEdgePheromone(pheromone, from_node, to_node, initial_pheromone) ==
    (<<from_node, to_node>> :> initial_pheromone)
        @@ (<<to_node, from_node>> :> initial_pheromone) @@ pheromone

add_edge(e, from_node, to_node, distance) ==
    [e EXCEPT !.graph = AddEdgeGraph(e.graph, from_node, to_node, distance),
              !.pheromone = AddEdgePheromone(e.pheromone, from_node, to_node,
                                             e.initial_pheromone)]

set_nest(e, node) == [add_node(e, node) EXCEPT !.nest = node]

add_food(e, node) == [add_node(e, node) EXCEPT !.food_nodes = @ \cup {node}]

PheromoneFloor == Unit \div 100

EvaporateEdgeNoFloor(p, rate) == (p * (100 - rate)) \div 100

\* the floor applied to the old intensity instead of the decayed one
EvaporateEdgeFloorFirst(p, rate) ==
    (Max(p, PheromoneFloor) * (100 - rate)) \div 100

EvaporateEdge(p, rate) == Max((p * (100 - rate)) \div 100, PheromoneFloor)

evaporateTwice(e) ==
    [e EXCEPT !.pheromone =
        [edge \in DOMAIN e.pheromone |->
            EvaporateEdge(EvaporateEdge(e.pheromone[edge], e.evaporation_rate),
                          e.evaporation_rate)]]

evaporate(e) ==
    [e EXCEPT !.pheromone =
        [edge \in DOMAIN e.pheromone |->
            EvaporateEdge(e.pheromone[edge], e.evaporation_rate)]]

DepositEdgeForwardOnly(pheromone, edge, amount) ==
    IF edge \in DOMAIN pheromone
    THEN [pheromone EXCEPT ![edge] = @ + amount]
    ELSE pheromone

\* the deposit written as pheromone[edge] = pheromone.get(edge, 0) + amount
DepositEdgeCreates(pheromone, edge, amount) ==
    LET p1 == IF edge \in DOMAIN pheromone
              THEN [pheromone EXCEPT ![edge] = @ + amount]
              ELSE (edge :> amount) @@ pheromone
        reverse == <<edge[2], edge[1]>>
    IN  IF reverse \in DOMAIN p1 /\ reverse # edge
        THEN [p1 EXCEPT ![reverse] = @ + amount]
        ELSE p1

DepositEdge(pheromone, edge, amount) ==
    LET p1 == IF edge \in DOMAIN pheromone
              THEN [pheromone EXCEPT ![edge] = @ + amount]
              ELSE pheromone
        reverse == <<edge[2], edge[1]>>
    IN  IF reverse \in DOMAIN p1
        THEN [p1 EXCEPT ![reverse] = @ + amount]
        ELSE p1

RECURSIVE DepositPheromone(_, _, _)
DepositPheromone(pheromone, edges, amount) ==
    IF edges = <<>>
    THEN pheromone
    ELSE DepositPheromone(DepositEdge(pheromone, Head(edges), amount),
                          Tail(edges), amount)

deposit_pheromone(e, edges, amount) ==
    [e EXCEPT !.pheromone = DepositPheromone(e.pheromone, edges, amount)]

\* the inner loop without the assignment best_pheromone = edge_pheromone
RECURSIVE BestNextFromNoUpdate(_, _, _, _, _, _)
BestNextFromNoUpdate(neighbors, i, visited, current, pheromone, best) ==
    IF i > Len(neighbors)
    THEN best
    ELSE LET neighbor == neighbors[i][1]
             dist == neighbors[i][2]
             edge_pheromone == IF <<current, neighbor>> \in DOMAIN pheromone
                               THEN pheromone[<<current, neighbor>>]
                               ELSE 0
         IN  IF neighbor \notin visited /\ edge_pheromone > best[2]
             THEN BestNextFromNoUpdate(neighbors, i + 1, visited, current,
                                       pheromone, <<(<<neighbor, dist>>), -1>>)
             ELSE BestNextFromNoUpdate(neighbors, i + 1, visited, current,
                                       pheromone, best)

\* the inner for loop of get_best_path over neighbors.items(), from entry i on:
\* best is <<best_next, best_pheromone>>, best_next being <<>> for None
RECURSIVE BestNextFrom(_, _, _, _, _, _)
BestNextFrom(neighbors, i, visited, current, pheromone, best) ==
    IF i > Len(neighbors)
    THEN best
    ELSE LET neighbor == neighbors[i][1]
             dist == neighbors[i][2]
             edge_pheromone == IF <<current, neighbor>> \in DOMAIN pheromone
                               THEN pheromone[<<current, neighbor>>]
                               ELSE 0
         IN  IF neighbor \notin visited /\ edge_pheromone > best[2]
             THEN BestNextFrom(neighbors, i + 1, visited, current, pheromone,
                               <<(<<neighbor, dist>>), edge_pheromone>>)
             ELSE BestNextFrom(neighbors, i + 1, visited, current, pheromone,
                               best)

\* the while loop returning the walk so far at a dead end
RECURSIVE GreedyWalkPartial(_, _, _, _, _, _, _)
GreedyWalkPartial(graph, pheromone, path, visited, current, total_dist, to_node) ==
    IF current = to_node
    THEN [found |-> TRUE, path |-> path, total_dist |-> total_dist]
    ELSE LET neighbors == IF current \in DOMAIN graph
                          THEN graph[current]
                          ELSE <<>>
             best_next == BestNextFrom(neighbors, 1, visited, current,
                                       pheromone, <<(<<>>), -1>>)[1]
         IN  IF best_next = <<>>
             THEN [found |-> FALSE, path |-> path, total_dist |-> total_dist]
             ELSE GreedyWalkPartial(graph, pheromone,
                                    Append(path, best_next[1]),
                                    visited \cup {best_next[1]}, best_next[1],
                                    total_dist + best_next[2], to_node)

\* the while loop of get_best_path
RECURSIVE GreedyWalk(_, _, _, _, _, _, _)
GreedyWalk(graph, pheromone, path, visited, current, total_dist, to_node) ==
    IF current = to_node
    THEN [found |-> TRUE, path |-> path, total_dist |-> total_dist]
    ELSE LET neighbors == IF current \in DOMAIN graph
                          THEN graph[current]
                          ELSE <<>>
             best_next == BestNextFrom(neighbors, 1, visited, current,
                                       pheromone, <<(<<>>), -1>>)[1]
         IN  IF best_next = <<>>
             THEN [found |-> FALSE, path |-> <<>>, total_dist |-> Inf]
             ELSE GreedyWalk(graph, pheromone, Append(path, best_next[1]),
                             visited \cup {best_next[1]}, best_next[1],
                             total_dist + best_next[2], to_node)

\* get_best_path as a do-while: the loop body runs once before the test
get_best_pathStepsFirst(e, from_node, to_node) ==
    LET neighbors == IF from_node \in DOMAIN e.graph
                     THEN e.graph[from_node]
                     ELSE <<>>
        best_next == BestNextFrom(neighbors, 1, {from_node}, from_node,
                                  e.pheromone, <<(<<>>), -1>>)[1]
    IN  IF best_next = <<>>
        THEN [found |-> FALSE, path |-> <<>>, total_dist |-> Inf]
        ELSE GreedyWalk(e.graph, e.pheromone, <<from_node, best_next[1]>>,
                        {from_node, best_next[1]}, best_next[1], best_next[2],
                        to_node)

get_best_path(e, from_node, to_node) ==
    GreedyWalk(e.graph, e.pheromone, <<from_node>>, {from_node}, from_node, 0,
               to_node)


\* ------------------------------------------------------------------ agent.py
Alpha == 1
Beta == 2

\* AntAgent.__init__ (alpha and beta keep their defaults, Alpha and Beta)
NewAnt(ant_id, nest_node) ==
    [id |-> ant_id,
     nest |-> nest_node,
     current_node |-> nest_node,
     path |-> <<nest_node>>,
     path_length |-> 0,
     visited |-> {nest_node},
     found_food |-> FALSE,
     returning |-> FALSE,
     completed |-> FALSE]

\* reset without self.visited = {self.nest}
resetKeepsVisited(a) ==
    [a EXCEPT !.current_node = a.nest,
              !.path = <<a.nest>>,
              !.path_length = 0,
              !.found_food = FALSE,
              !.returning = FALSE,
              !.completed = FALSE]

reset(a) ==
    [a EXCEPT !.current_node = a.nest,
              !.path = <<a.nest>>,
              !.path_length = 0,
              !.visited = {a.nest},
              !.found_food = FALSE,
              !.returning = FALSE,
              !.completed = FALSE]

\* the neighbours the loop of get_transition_probabilities keeps, in dict order
EligibleRevisiting(neighbors, visited) == neighbors

RECURSIVE Eligible(_, _)
Eligible(neighbors, visited) ==
    IF neighbors = <<>>
    THEN <<>>
    ELSE IF Head(neighbors)[1] \in visited
         THEN Eligible(Tail(neighbors), visited)
         ELSE <<Head(neighbors)>> \o Eligible(Tail(neighbors), visited)

RECURSIVE ProdPow(_, _)
ProdPow(cands, skip) ==
    IF cands = <<>>
    THEN 1
    ELSE (IF Len(cands) = skip THEN 1 ELSE Head(cands)[2] ^ Beta)
             * ProdPow(Tail(cands), skip)

\* weight = tau ** alpha * (1 / dist) ** beta of the kept neighbours, every
\* weight multiplied by the product of all their dist ** beta so that it is a
\* whole number: <<neighbor, weight>> in dict order
Weights(a, cands, pheromone) ==
    [i \in 1 .. Len(cands) |->
        LET edge == <<a.current_node, cands[i][1]>>
            tau == IF edge \in DOMAIN pheromone
                   THEN pheromone[edge]
                   ELSE Unit \div 10
        IN  <<cands[i][1], (tau ^ Alpha) * ProdPow(cands, Len(cands) + 1 - i)>>]

RECURSIVE SumWeights(_, _)
SumWeights(ws, n) == IF n = 0 THEN 0 ELSE ws[n][2] + SumWeights(ws, n - 1)

\* get_transition_probabilities: the probability of entry i is
\* weights[i][2] / total when total > 0, and weights[i][2] otherwise
get_transition_probabilities(a, neighbors, pheromone) ==
    LET ws == Weights(a, Eligible(neighbors, a.visited), pheromone)
    IN  [weights |-> ws, total |-> SumWeights(ws, Len(ws))]

\* cumulative > r in place of cumulative >= r
ReachesStrict(probs, i, k) ==
    IF probs.total > 0
    THEN SumWeights(probs.weights, i) * RGrid > k * probs.total
    ELSE SumWeights(probs.weights, i) * RGrid > k

\* cumulative >= r after entry i, for r = k / RGrid
Reaches(probs, i, k) ==
    IF probs.total > 0
    THEN SumWeights(probs.weights, i) * RGrid >= k * probs.total
    ELSE SumWeights(probs.weights, i) * RGrid >= k

\* select_next_node with random.random() = k / RGrid; -1 is None
select_next_node(probs, k) ==
    LET n == Len(probs.weights)
    IN  IF n = 0
        THEN -1
        ELSE IF \E i \in 1 .. n : Reaches(probs, i, k)
             THEN probs.weights[CHOOSE i \in 1 .. n :
                                    /\ Reaches(probs, i, k)
                                    /\ \A j \in 1 .. (i - 1) :
                                           ~Reaches(probs, j, k)][1]
             ELSE probs.weights[n][1]

\* move_to without self.visited.add(node)
move_toForgetsVisited(a, node, distance) ==
    [a EXCEPT !.path = Append(@, node),
              !.path_length = @ + distance,
              !.current_node = node]

\* move_to counting hops: self.path_length += 1
move_toCountsHops(a, node, distance) ==
    [a EXCEPT !.path = Append(@, node),
              !.path_length = @ + 1,
              !.visited = @ \cup {node},
              !.current_node = node]

move_to(a, node, distance) ==
    [a EXCEPT !.path = Append(@, node),
              !.path_length = @ + distance,
              !.visited = @ \cup {node},
              !.current_node = node]

\* step, lines 155-172: the exploring ant away from food
StepExploreStuckCompletes(a, graph, pheromone, k) ==
    LET neighbors == IF a.current_node \in DOMAIN graph
                     THEN graph[a.current_node]
                     ELSE <<>>
        probs == get_transition_probabilities(a, neighbors, pheromone)
        next_node == select_next_node(probs, k)
    IN  IF next_node = -1
        THEN [ant |-> [a EXCEPT !.completed = TRUE], status |-> "stuck"]
        ELSE [ant |-> move_to(a, next_node, DictGet(neighbors, next_node)),
              status |-> "moving"]

StepExploreKeyError(a, graph, pheromone, k) ==
    LET neighbors == IF a.current_node \in DOMAIN graph
                     THEN graph[a.current_node]
                     ELSE <<>>
        probs == get_transition_probabilities(a, neighbors, pheromone)
        next_node == select_next_node(probs, k)
    IN  IF a.current_node \notin DOMAIN graph
        THEN [ant |-> a, status |-> "KeyError"]
        ELSE IF next_node = -1
             THEN [ant |-> a, status |-> "stuck"]
             ELSE [ant |-> move_to(a, next_node, DictGet(neighbors, next_node)),
                   status |-> "moving"]

StepExplore(a, graph, pheromone, k) ==
    LET neighbors == IF a.current_node \in DOMAIN graph
                     THEN graph[a.current_node]
                     ELSE <<>>
        probs == get_transition_probabilities(a, neighbors, pheromone)
        next_node == select_next_node(probs, k)
    IN  IF next_node = -1
        THEN [ant |-> a, status |-> "stuck"]
        ELSE [ant |-> move_to(a, next_node, DictGet(neighbors, next_node)),
              status |-> "moving"]

\* the returning ant, with returning cleared on completion
StepReturnClearsReturning(a) ==
    IF a.current_node = a.nest
    THEN [ant |-> [a EXCEPT !.completed = TRUE, !.returning = FALSE],
          status |-> "completed"]
    ELSE IF Len(a.path) > 1
         THEN LET popped == SubSeq(a.path, 1, Len(a.path) - 1)
              IN  [ant |-> [a EXCEPT !.path = popped,
                                     !.current_node = popped[Len(popped)]],
                   status |-> "returning"]
         ELSE [ant |-> a, status |-> "returning"]

\* the returning ant, popping the path without moving current_node
StepReturnStaleCurrent(a) ==
    IF a.current_node = a.nest
    THEN [ant |-> [a EXCEPT !.completed = TRUE], status |-> "completed"]
    ELSE IF Len(a.path) > 1
         THEN [ant |-> [a EXCEPT !.path = SubSeq(a.path, 1, Len(a.path) - 1)],
               status |-> "returning"]
         ELSE [ant |-> a, status |-> "returning"]

\* step, lines 139-147: the returning ant
StepReturn(a) ==
    IF a.current_node = a.nest
    THEN [ant |-> [a EXCEPT !.completed = TRUE], status |-> "completed"]
    ELSE IF Len(a.path) > 1
         THEN LET popped == SubSeq(a.path, 1, Len(a.path) - 1)
              IN  [ant |-> [a EXCEPT !.path = popped,
                                     !.current_node = popped[Len(popped)]],
                   status |-> "returning"]
         ELSE [ant |-> a, status |-> "returning"]

\* step with the food test made after the neighbour selection: an exploring
\* ant moves on while it can and looks for food only where it cannot
stepSelectsBeforeFoodTest(a, graph, pheromone, food_nodes, k) ==
    IF a.completed
    THEN [ant |-> a, status |-> "completed"]
    ELSE IF a.returning
         THEN StepReturn(a)
         ELSE LET moved == StepExplore(a, graph, pheromone, k)
              IN  IF moved.status = "stuck" /\ a.current_node \in food_nodes
                  THEN [ant |-> [a EXCEPT !.found_food = TRUE,
                                          !.returning = TRUE],
                        status |-> "found_food"]
                  ELSE moved

step(a, graph, pheromone, food_nodes, k) ==
    IF a.completed
    THEN [ant |-> a, status |-> "completed"]
    ELSE IF a.returning
         THEN StepReturn(a)
         ELSE IF a.current_node \in food_nodes
              THEN [ant |-> [a EXCEPT !.found_food = TRUE,
                                      !.returning = TRUE],
                    status |-> "found_food"]
              ELSE StepExplore(a, graph, pheromone, k)

get_path_edges(a) ==
    [i \in 1 .. (Len(a.path) - 1) |-> <<a.path[i], a.path[i + 1]>>]

\* ------------------------------------------- the environment under its callers
\* the node sequences handed to deposit_pheromone as paths, and their edges
Walks == UNION {[1 .. n -> Nodes] : n \in NodeCounts}

PathEdges(path) == [i \in 1 .. (Len(path) - 1) |-> <<path[i], path[i + 1]>>]

NoCall == [op |-> "none", args |-> <<>>, ret |-> <<>>]

NoStatus == [prev |-> "new", ret |-> "new"]

NoHistory ==
    [best_path_length |-> <<>>,
     avg_path_length |-> <<>>,
     best_path |-> <<>>,
     overall_best_length |-> Inf]

agentVars == <<ants, status, forward>>

runVars == <<num_nodes, history, pc, iteration, sweep, cursor, all_done>>

envVars == <<env, evaporated, ncalls>>

vars == <<env, last, evaporated, ncalls, ants, status, forward,
          num_nodes, history, pc, iteration, sweep, cursor, all_done>>

NoRun ==
    /\ num_nodes = 0
    /\ history = NoHistory
    /\ pc = "none"
    /\ iteration = 0
    /\ sweep = 0
    /\ cursor = 0
    /\ all_done = TRUE

InitEnv ==
    /\ \E config \in EnvConfigs : env = NewEnvironment(config[1], config[2])
    /\ last = NoCall
    /\ evaporated = FALSE
    /\ ncalls = 0
    /\ ants = <<>>
    /\ status = <<>>
    /\ forward = <<>>
    /\ NoRun

EnvAddNode(node) ==
    /\ ncalls < MaxCalls
    /\ env' = add_node(env, node)
    /\ last' = [op |-> "add_node", args |-> <<>>, ret |-> <<>>]
    /\ ncalls' = ncalls + 1
    /\ UNCHANGED <<evaporated, agentVars, runVars>>

EnvAddEdge(from_node, to_node, distance) ==
    /\ ncalls < MaxCalls
    /\ env' = add_edge(env, from_node, to_node, distance)
    /\ last' = [op |-> "add_edge", args |-> <<from_node, to_node, distance>>,
                ret |-> "None"]
    /\ evaporated' = FALSE
    /\ ncalls' = ncalls + 1
    /\ UNCHANGED <<agentVars, runVars>>

EnvEvaporate ==
    /\ ncalls < MaxCalls
    /\ env' = evaporate(env)
    /\ last' = [op |-> "evaporate", args |-> <<>>, ret |-> <<>>]
    /\ evaporated' = TRUE
    /\ ncalls' = ncalls + 1
    /\ UNCHANGED <<agentVars, runVars>>

EnvDeposit(path, amount) ==
    /\ ncalls < MaxCalls
    /\ env' = deposit_pheromone(env, PathEdges(path), amount)
    /\ last' = [op |-> "deposit", args |-> <<PathEdges(path), amount>>,
                ret |-> "None"]
    /\ ncalls' = ncalls + 1
    /\ UNCHANGED <<evaporated, agentVars, runVars>>

EnvGetBestPath(from_node, to_node) ==
    /\ ncalls < MaxCalls
    /\ last' = [op |-> "get_best_path", args |-> <<from_node, to_node>>,
                ret |-> get_best_path(env, from_node, to_node)]
    /\ ncalls' = ncalls + 1
    /\ UNCHANGED <<env, evaporated, agentVars, runVars>>

NextEnv ==
    \/ \E node \in Nodes : EnvAddNode(node)
    \/ \E from_node \in Nodes, to_node \in Nodes, distance \in AnyDists :
           EnvAddEdge(from_node, to_node, distance)
    \/ EnvEvaporate
    \/ \E path \in Walks, amount \in Amounts : EnvDeposit(path, amount)
    \/ \E from_node \in Nodes, to_node \in Nodes :
           EnvGetBestPath(from_node, to_node)

SpecEnv == InitEnv /\ [][NextEnv]_vars

RunEvaporationRate == 20
DefaultInitialPheromone == Unit \div 10

\* ------------------------------------------------------ create_random_graph
\* the spanning tree loop, for i = 1 .. upto
RECURSIVE TreeGraphs(_, _)
TreeGraphs(e0, upto) ==
    IF upto = 0
    THEN {e0}
    ELSE UNION {{add_edge(e, upto, target, dist) :
                     target \in 0 .. (upto - 1), dist \in Dists} :
                e \in TreeGraphs(e0, upto - 1)}

\* the loop over the pairs i < j, the pair numbered p being
\* (p \div n_nodes, p % n_nodes), for p = 0 .. upto
RECURSIVE ExtraGraphs(_, _, _)
ExtraGraphs(envs, n_nodes, upto) ==
    IF upto < 0
    THEN envs
    ELSE LET i == upto \div n_nodes
             j == upto % n_nodes
             before == ExtraGraphs(envs, n_nodes, upto - 1)
         IN  IF j <= i
             THEN before
             ELSE UNION {IF <<i, j>> \in DOMAIN e.pheromone
                         THEN {e}
                         ELSE {e} \cup {add_edge(e, i, j, dist) :
                                            dist \in Dists} :
                         e \in before}

create_random_graph(e0, n_nodes) ==
    {add_food(set_nest(e, 0), n_nodes - 1) :
        e \in ExtraGraphs(TreeGraphs(e0, n_nodes - 1), n_nodes,
                          n_nodes * n_nodes - 1)}

\* ------------------------------------------------------- the agent, stepped
FreshAnts(nest) == [i \in 1 .. NumAnts |-> NewAnt(i - 1, nest)]

\* environments a caller builds by hand without any edge: a nest and a food
\* node that are both isolated, and a food node with the nest left unset
EdgelessEnvs(e0) == {add_food(set_nest(e0, 0), 1), add_food(e0, 1)}

InitAgent ==
    /\ \E n \in NodeCounts, init \in InitialPheromones :
           LET e0 == NewEnvironment(RunEvaporationRate, init)
           IN  env \in create_random_graph(e0, n) \cup EdgelessEnvs(e0)
    /\ last = NoCall
    /\ evaporated = FALSE
    /\ ncalls = 0
    /\ ants = FreshAnts(env.nest)
    /\ status = [i \in 1 .. NumAnts |-> NoStatus]
    /\ forward = [i \in 1 .. NumAnts |-> <<>>]
    /\ NoRun

\* step of an ant that also avoids the nodes the other ants stand on
AgentStepAvoidsOthers(i, k) ==
    LET occupied == {ants[j].current_node : j \in (1 .. NumAnts) \ {i}}
                        \ {ants[i].current_node}
        res == step([ants[i] EXCEPT !.visited = @ \cup occupied],
                    env.graph, env.pheromone, env.food_nodes, k)
    IN  /\ ants' = [ants EXCEPT ![i] = res.ant]
        /\ status' = [status EXCEPT ![i] = [prev |-> @.ret, ret |-> res.status]]
        /\ forward' = [forward EXCEPT
                          ![i] = IF res.status = "found_food"
                                 THEN ants[i].path
                                 ELSE @]
        /\ last' = [op |-> "step", args |-> <<i>>, ret |-> res.status]
        /\ UNCHANGED <<envVars, runVars>>

\* step with a visited set shared by all the ants instead of one per ant
AgentStepSharedVisited(i, k) ==
    LET res == step(ants[i], env.graph, env.pheromone, env.food_nodes, k)
    IN  /\ ants' = [j \in 1 .. NumAnts |->
                       IF j = i
                       THEN res.ant
                       ELSE [ants[j] EXCEPT !.visited = res.ant.visited]]
        /\ status' = [status EXCEPT ![i] = [prev |-> @.ret, ret |-> res.status]]
        /\ forward' = [forward EXCEPT
                          ![i] = IF res.status = "found_food"
                                 THEN ants[i].path
                                 ELSE @]
        /\ last' = [op |-> "step", args |-> <<i>>, ret |-> res.status]
        /\ UNCHANGED <<envVars, runVars>>

AgentStep(i, k) ==
    LET res == step(ants[i], env.graph, env.pheromone, env.food_nodes, k)
    IN  /\ ants' = [ants EXCEPT ![i] = res.ant]
        /\ status' = [status EXCEPT ![i] = [prev |-> @.ret, ret |-> res.status]]
        /\ forward' = [forward EXCEPT
                          ![i] = IF res.status = "found_food"
                                 THEN ants[i].path
                                 ELSE @]
        /\ last' = [op |-> "step", args |-> <<i>>, ret |-> res.status]
        /\ UNCHANGED <<envVars, runVars>>

AgentReset(i) ==
    /\ ants' = [ants EXCEPT ![i] = reset(@)]
    /\ status' = [status EXCEPT ![i] = NoStatus]
    /\ forward' = [forward EXCEPT ![i] = <<>>]
    /\ last' = [op |-> "reset", args |-> <<i>>, ret |-> <<>>]
    /\ UNCHANGED <<envVars, runVars>>

NextAgent ==
    \/ \E i \in 1 .. NumAnts, k \in 0 .. (RGrid - 1) : AgentStep(i, k)
    \/ \E i \in 1 .. NumAnts : AgentReset(i)

SpecAgent == InitAgent /\ [][NextAgent]_vars

\* --------------------------------------- get_best_path on reinforced graphs
\* a generated graph of any size, with or without one deposit along a walk
InitBestPath ==
    /\ \E n \in NodeCounts, path \in Walks :
           \E g \in create_random_graph(
                        NewEnvironment(RunEvaporationRate,
                                       DefaultInitialPheromone), n) :
               env = deposit_pheromone(g, PathEdges(path), Unit)
    /\ last = NoCall
    /\ evaporated = FALSE
    /\ ncalls = 0
    /\ ants = <<>>
    /\ status = <<>>
    /\ forward = <<>>
    /\ NoRun

BestPath(from_node, to_node) ==
    /\ last' = [op |-> "get_best_path", args |-> <<from_node, to_node>>,
                ret |-> get_best_path(env, from_node, to_node)]
    /\ UNCHANGED <<envVars, agentVars, runVars>>

NextBestPath == \E from_node, to_node \in Nodes : BestPath(from_node, to_node)

SpecBestPath == InitBestPath /\ [][NextBestPath]_vars

\* ------------------------------ get_best_path on graphs with and without nodes
\* the environment as constructed, the edgeless ones, and the generated graphs
\* with or without one deposit along a walk
InitGreedy ==
    /\ LET e0 == NewEnvironment(RunEvaporationRate, DefaultInitialPheromone)
       IN  \/ env \in {e0} \cup EdgelessEnvs(e0)
           \/ \E n \in NodeCounts, path \in Walks :
                  \E g \in create_random_graph(e0, n) :
                      env = deposit_pheromone(g, PathEdges(path), Unit)
    /\ last = NoCall
    /\ evaporated = FALSE
    /\ ncalls = 0
    /\ ants = <<>>
    /\ status = <<>>
    /\ forward = <<>>
    /\ NoRun

SpecGreedy == InitGreedy /\ [][NextBestPath]_vars

\* ------------------------------------------------- evaporate called repeatedly
\* evaporation rates, in per cent, and intensities the single edge starts at
DecayRates == {10, 20}
DecayStarts == {Unit \div 2, Unit, 2 * Unit}

InitDecay ==
    /\ \E rate \in DecayRates, start \in DecayStarts :
           env = add_edge(NewEnvironment(rate, start), 0, 1, 1)
    /\ last = NoCall
    /\ evaporated = FALSE
    /\ ncalls = 0
    /\ ants = <<>>
    /\ status = <<>>
    /\ forward = <<>>
    /\ NoRun

Decay ==
    /\ env' = evaporate(env)
    /\ last' = [op |-> "evaporate", args |-> <<>>, ret |-> <<>>]
    /\ evaporated' = TRUE
    /\ UNCHANGED <<ncalls, agentVars, runVars>>

NextDecay == Decay

\* the caller goes on calling evaporate
SpecDecay == InitDecay /\ [][NextDecay]_vars /\ WF_vars(NextDecay)

\* ------------------------------------------- select_next_node on its own
\* the lists get_transition_probabilities can return: up to three distinct
\* neighbours in any order, each with a weight, and the sum of the weights
SelectWeights == {0, 1, 2}

ProbLists ==
    {[weights |-> ws, total |-> SumWeights(ws, Len(ws))] :
        ws \in {w \in UNION {[1 .. n -> Nodes \X SelectWeights] :
                                 n \in NodeCounts} :
                    \A i, j \in 1 .. Len(w) : i # j => w[i][1] # w[j][1]}}

InitSelect ==
    /\ env = NewEnvironment(RunEvaporationRate, DefaultInitialPheromone)
    /\ last = NoCall
    /\ evaporated = FALSE
    /\ ncalls = 0
    /\ ants = <<>>
    /\ status = <<>>
    /\ forward = <<>>
    /\ NoRun

Select(probs, k) ==
    /\ last' = [op |-> "select_next_node", args |-> <<probs, k>>,
                ret |-> select_next_node(probs, k)]
    /\ UNCHANGED <<envVars, agentVars, runVars>>

NextSelect == \E probs \in ProbLists, k \in 0 .. (RGrid - 1) : Select(probs, k)

SpecSelect == InitSelect /\ [][NextSelect]_vars

\* ------------------------------------- the per-round mean, in float arithmetic
\* Python floats round every sum and quotient to the nearest representable
\* value, ties to the even mantissa. Floats are modelled with MantissaBits
\* bits of mantissa, as naturals in units of 1 / FloatUnit.
MantissaBits == 3

FloatUnit == 2 ^ MantissaBits

Mantissas == (2 ^ (MantissaBits - 1)) .. (2 ^ MantissaBits - 1)

Exponents == 0 .. 5

Floats == {m * 2 ^ e : m \in Mantissas, e \in Exponents}

Mantissa(f) == CHOOSE m \in Mantissas : \E e \in Exponents : f = m * 2 ^ e

Distance(f, num, den) ==
    IF f * den >= num THEN f * den - num ELSE num - f * den

\* the float nearest to num / den
RoundNearestEven(num, den) ==
    LET nearest == {f \in Floats :
                       \A g \in Floats :
                           Distance(f, num, den) <= Distance(g, num, den)}
    IN  CHOOSE f \in nearest :
            \A g \in nearest : g # f => Mantissa(f) % 2 = 0

\* sum(a.path_length for a in successful_ants): from 0, left to right
RECURSIVE FloatSum(_, _)
FloatSum(lengths, n) ==
    IF n = 0
    THEN 0
    ELSE IF n = 1
         THEN lengths[1]
         ELSE RoundNearestEven(FloatSum(lengths, n - 1) + lengths[n], 1)

\* line 59: sum(...) / len(successful_ants)
AvgLength(lengths) ==
    RoundNearestEven(FloatSum(lengths, Len(lengths)), Len(lengths))

\* line 58: the path length of min(successful_ants, key=path_length)
BestLength(lengths) ==
    CHOOSE m \in {lengths[n] : n \in 1 .. Len(lengths)} :
        \A n \in 1 .. Len(lengths) : m <= lengths[n]

\* the path lengths of the successful ants of a round, as floats
SuccessCounts == {1, 2, 3}
PathLengths == {n * FloatUnit : n \in 1 .. 7}
LengthLists == UNION {[1 .. n -> PathLengths] : n \in SuccessCounts}

\* lines 58-62, once, for the path lengths of a round's successful ants
Mean(lengths) ==
    /\ last = NoCall
    /\ last' = [op |-> "mean", args |-> <<lengths>>,
                ret |-> [best |-> BestLength(lengths),
                         avg |-> AvgLength(lengths)]]
    /\ UNCHANGED <<envVars, agentVars, runVars>>

NextMean == \E lengths \in LengthLists : Mean(lengths)

SpecMean == InitSelect /\ [][NextMean]_vars

\* ------------------------- evaporate called repeatedly on a reinforced graph
\* what the rounds without a successful ant do to a field that a deposit has
\* made uneven: run_simulation lines 73-78 write the field by evaporate only
SpecFieldDecay == InitBestPath /\ [][NextDecay]_vars

\* ------------------------------------------------------------ run_simulation
QConstant == 100

MaxStepsOnePerNode(n) == n

\* max_steps = num_nodes * 3
MaxSteps(n) == n * 3

\* the list comprehension without its condition: every ant
RECURSIVE SuccessfulAll(_, _)
SuccessfulAll(as, i) ==
    IF i > Len(as) THEN <<>> ELSE <<i>> \o SuccessfulAll(as, i + 1)

\* [a for a in ants if a.found_food and a.completed], as ant indices in order
RECURSIVE Successful(_, _)
Successful(as, i) ==
    IF i > Len(as)
    THEN <<>>
    ELSE IF as[i].found_food /\ as[i].completed
         THEN <<i>> \o Successful(as, i + 1)
         ELSE Successful(as, i + 1)

\* min(successful_ants, key=path_length): the first of the shortest
BestAnt(as, succ) ==
    succ[CHOOSE n \in 1 .. Len(succ) :
             /\ \A m \in 1 .. Len(succ) :
                    as[succ[n]].path_length <= as[succ[m]].path_length
             /\ \A m \in 1 .. (n - 1) :
                    as[succ[m]].path_length > as[succ[n]].path_length]

RECURSIVE SumLengths(_, _, _)
SumLengths(as, succ, n) ==
    IF n = 0 THEN 0 ELSE as[succ[n]].path_length + SumLengths(as, succ, n - 1)

ImprovesAlways(length, overall_best_length) == TRUE

Improves(length, overall_best_length) == length < overall_best_length

\* lines 64-67
UpdateBest(h, best_ant) ==
    IF Improves(best_ant.path_length, h.overall_best_length)
    THEN [h EXCEPT !.overall_best_length = best_ant.path_length,
                   !.best_path = best_ant.path]
    ELSE h

\* Q / path_length, in 1/Unit, for path_length # 0
DepositAmount(a) == (QConstant * Unit) \div a.path_length

\* lines 70-72, for the successful ants from the n-th on: the field they
\* leave, and whether Q / path_length raised ZeroDivisionError on the way
RECURSIVE DepositAll(_, _, _, _)
DepositAll(pheromone, as, succ, n) ==
    IF n > Len(succ)
    THEN [pheromone |-> pheromone, raised |-> FALSE]
    ELSE IF as[succ[n]].path_length = 0
         THEN [pheromone |-> pheromone, raised |-> TRUE]
         ELSE DepositAll(DepositPheromone(pheromone,
                                          get_path_edges(as[succ[n]]),
                                          DepositAmount(as[succ[n]])),
                         as, succ, n + 1)

Init ==
    /\ num_nodes \in NodeCounts
    /\ env \in create_random_graph(
                   NewEnvironment(RunEvaporationRate, DefaultInitialPheromone),
                   num_nodes)
    /\ last = NoCall
    /\ evaporated = FALSE
    /\ ncalls = 0
    /\ ants = <<>>
    /\ status = <<>>
    /\ forward = <<>>
    /\ history = NoHistory
    /\ pc = "ants"
    /\ iteration = 0
    /\ sweep = 0
    /\ cursor = 0
    /\ all_done = TRUE

\* line 40, and the entry of the stepping loop
CreateAnts ==
    /\ pc = "ants"
    /\ ants' = FreshAnts(env.nest)
    /\ status' = [i \in 1 .. NumAnts |-> NoStatus]
    /\ forward' = [i \in 1 .. NumAnts |-> <<>>]
    /\ sweep' = 0
    /\ cursor' = 1
    /\ all_done' = TRUE
    /\ pc' = IF MaxSteps(num_nodes) > 0 THEN "step" ELSE "collect"
    /\ last' = [op |-> "ants", args |-> <<>>, ret |-> <<>>]
    /\ UNCHANGED <<envVars, num_nodes, history, iteration>>

\* lines 46-49 for one ant that is not completed
StepAnt(k) ==
    /\ pc = "step"
    /\ cursor <= NumAnts
    /\ ~ants[cursor].completed
    /\ LET res == step(ants[cursor], env.graph, env.pheromone,
                       env.food_nodes, k)
       IN  /\ ants' = [ants EXCEPT ![cursor] = res.ant]
           /\ status' = [status EXCEPT
                            ![cursor] = [prev |-> @.ret, ret |-> res.status]]
           /\ forward' = [forward EXCEPT
                             ![cursor] = IF res.status = "found_food"
                                         THEN ants[cursor].path
                                         ELSE @]
           /\ last' = [op |-> "step", args |-> <<cursor>>,
                       ret |-> res.status]
    /\ all_done' = FALSE
    /\ cursor' = cursor + 1
    /\ UNCHANGED <<envVars, num_nodes, history, pc, iteration, sweep>>

\* lines 46-47 for a completed ant
SkipAnt ==
    /\ pc = "step"
    /\ cursor <= NumAnts
    /\ ants[cursor].completed
    /\ cursor' = cursor + 1
    /\ last' = [op |-> "skip", args |-> <<cursor>>, ret |-> <<>>]
    /\ UNCHANGED <<envVars, agentVars, num_nodes, history, pc, iteration,
                   sweep, all_done>>

\* lines 50-51 and the next turn of line 44
EndSweep ==
    /\ pc = "step"
    /\ cursor > NumAnts
    /\ IF all_done \/ sweep + 1 >= MaxSteps(num_nodes)
       THEN /\ pc' = "collect"
            /\ UNCHANGED <<sweep, cursor, all_done>>
       ELSE /\ sweep' = sweep + 1
            /\ cursor' = 1
            /\ all_done' = TRUE
            /\ pc' = "step"
    /\ last' = [op |-> "sweep", args |-> <<>>, ret |-> <<>>]
    /\ UNCHANGED <<envVars, agentVars, num_nodes, history, iteration>>

\* lines 53-75; pc "raised": run_simulation left by ZeroDivisionError (line 71)
Collect ==
    /\ pc = "collect"
    /\ LET succ == Successful(ants, 1)
       IN  IF succ # <<>>
           THEN LET best_ant == ants[BestAnt(ants, succ)]
                    avg_length == (SumLengths(ants, succ, Len(succ)) * Unit)
                                      \div Len(succ)
                    h1 == [history EXCEPT
                              !.best_path_length =
                                  Append(@, best_ant.path_length),
                              !.avg_path_length = Append(@, avg_length)]
                    dep == DepositAll(env.pheromone, ants, succ, 1)
                IN  /\ history' = UpdateBest(h1, best_ant)
                    /\ env' = [env EXCEPT !.pheromone = dep.pheromone]
                    /\ pc' = IF dep.raised THEN "raised" ELSE "evaporate"
           ELSE /\ history' = [history EXCEPT
                                  !.best_path_length = Append(@, Inf),
                                  !.avg_path_length = Append(@, Inf)]
                /\ pc' = "evaporate"
                /\ UNCHANGED env
    /\ last' = [op |-> "collect", args |-> <<>>, ret |-> <<>>]
    /\ UNCHANGED <<evaporated, ncalls, agentVars, num_nodes, iteration, sweep,
                   cursor, all_done>>

\* line 78 and the next turn of line 38
Evaporate ==
    /\ pc = "evaporate"
    /\ env' = evaporate(env)
    /\ evaporated' = TRUE
    /\ iteration' = iteration + 1
    /\ pc' = IF iteration + 1 < NumIterations THEN "ants" ELSE "done"
    /\ last' = [op |-> "evaporate", args |-> <<>>, ret |-> <<>>]
    /\ UNCHANGED <<ncalls, agentVars, num_nodes, history, sweep, cursor,
                   all_done>>

\* analyze_results, line 117
Analyze ==
    /\ pc = "done"
    /\ LET food == CHOOSE f \in env.food_nodes : TRUE
       IN  last' = [op |-> "get_best_path", args |-> <<env.nest, food>>,
                    ret |-> get_best_path(env, env.nest, food)]
    /\ pc' = "end"
    /\ UNCHANGED <<envVars, agentVars, num_nodes, history, iteration, sweep,
                   cursor, all_done>>

Next ==
    \/ CreateAnts
    \/ \E k \in 0 .. (RGrid - 1) : StepAnt(k)
    \/ SkipAnt
    \/ EndSweep
    \/ Collect
    \/ Evaporate
    \/ Analyze

Spec == Init /\ [][Next]_vars

\* ------------------------------------------------------------------ claims
Reverse(edge) == <<edge[2], edge[1]>>

IsSuccessful(a) == a.found_food /\ a.completed

\* how often the path walks the edge, in either direction
Occurrences(path, edge) ==
    Cardinality({i \in 1 .. (Len(path) - 1) :
                    \/ <<path[i], path[i + 1]>> = edge
                    \/ <<path[i + 1], path[i]>> = edge})

RECURSIVE DueDeposit(_, _, _, _)
DueDeposit(as, fwd, edge, n) ==
    IF n = 0
    THEN 0
    ELSE DueDeposit(as, fwd, edge, n - 1)
             + (IF IsSuccessful(as[n])
                THEN DepositAmount(as[n]) * Occurrences(fwd[n], edge)
                ELSE 0)

\* C1: when the successful ants of a round have been collected and before the
\* round's evaporation, every tracked edge has gained Q / path_length of every
\* successful ant whose forward path (nest to food) walks it in either
\* direction.
C1_DepositOnForwardPaths ==
    [][(pc = "collect" /\ pc' = "evaporate") =>
          \A edge \in DOMAIN env.pheromone :
              env'.pheromone[edge] =
                  env.pheromone[edge]
                      + DueDeposit(ants, forward, edge, Len(ants))]_vars

RECURSIVE PathDistance(_, _, _)
PathDistance(graph, path, n) ==
    IF n <= 1
    THEN 0
    ELSE DictGet(graph[path[n - 1]], path[n]) + PathDistance(graph, path, n - 1)

IsGraphPath(graph, path) ==
    /\ \A i \in 1 .. Len(path) : path[i] \in DOMAIN graph
    /\ \A i \in 1 .. (Len(path) - 1) : path[i + 1] \in DictKeys(graph[path[i]])

\* C2: whenever the overall best length is finite, the recorded best path
\* starts at the nest, ends at a food node, follows graph edges, and its edge
\* distances sum to the recorded best length.
C2_BestPathIsNestToFood ==
    history.overall_best_length < Inf =>
        LET path == history.best_path
        IN  /\ Len(path) >= 1
            /\ path[1] = env.nest
            /\ path[Len(path)] \in env.food_nodes
            /\ IsGraphPath(env.graph, path)
            /\ PathDistance(env.graph, path, Len(path))
                   = history.overall_best_length

\* the triangle of the scenario: edges (0,1,2), (1,2,2), (0,2,1) in that order
Triangle == AddEdgeGraph(AddEdgeGraph(AddEdgeGraph(<<>>, 0, 1, 2), 1, 2, 2),
                         0, 2, 1)

RoundOver == iteration >= 1 /\ pc \in {"ants", "done", "end"}

\* C3: on the triangle, after a round in which a successful ant walked the
\* direct edge 0 -> 2, the greedy extraction from 0 to 2 returns [0, 2] with
\* length 1.
C3_TriangleGreedyDirect ==
    (/\ env.graph = Triangle
     /\ env.nest = 0
     /\ env.food_nodes = {2}
     /\ RoundOver
     /\ \E i \in 1 .. Len(ants) :
            IsSuccessful(ants[i]) /\ forward[i] = <<0, 2>>)
        => get_best_path(env, 0, 2)
               = [found |-> TRUE, path |-> <<0, 2>>, total_dist |-> 1]

\* C4: the overall best length starts at infinity, never increases, and
\* changes only to the path length of a successful ant that is strictly
\* smaller than the value it replaces.
C4_BestNeverIncreases ==
    /\ history.overall_best_length = Inf
    /\ [][/\ history'.overall_best_length <= history.overall_best_length
          /\ history'.overall_best_length # history.overall_best_length =>
                 \E i \in 1 .. Len(ants) :
                     /\ IsSuccessful(ants[i])
                     /\ ants[i].path_length = history'.overall_best_length
                     /\ ants[i].path_length < history.overall_best_length]_vars

\* two successful rounds, the second one's best longer than the first one's
C4_Witness ==
    /\ Len(history.best_path_length) = 2
    /\ history.best_path_length[1] < history.best_path_length[2]
    /\ history.best_path_length[2] < Inf
    /\ history.overall_best_length = history.best_path_length[1]

IsSimplePath(path) ==
    \A i, j \in 1 .. Len(path) : i # j => path[i] # path[j]

PathNodes(path) == {path[i] : i \in 1 .. Len(path)}

\* C5: an ant that has not started returning has pairwise distinct path nodes
\* and visited = the nodes of its path; a step never moves such an ant to a
\* node it has visited.
C5_NoRevisit ==
    /\ [](\A i \in 1 .. Len(ants) :
              ~ants[i].returning =>
                  /\ IsSimplePath(ants[i].path)
                  /\ ants[i].visited = PathNodes(ants[i].path))
    /\ [][\A i \in 1 .. Len(ants) :
              (/\ last'.op = "step"
               /\ ~ants[i].returning
               /\ ants'[i].current_node # ants[i].current_node)
                  => ants'[i].current_node \notin ants[i].visited]_vars

\* an ant stuck away from the nest, and one that moved onto a food node
C5_Witness ==
    \E i, j \in 1 .. Len(ants) :
        /\ status[i].ret = "stuck"
        /\ Len(ants[i].path) >= 2
        /\ status[j].ret = "moving"
        /\ Len(ants[j].path) >= 2
        /\ ants[j].current_node \in env.food_nodes

AboveFloor ==
    \A edge \in DOMAIN env.pheromone : env.pheromone[edge] >= PheromoneFloor

\* C6: once an evaporation has run (and no edge was added since), every
\* tracked edge is at or above the floor, also after the deposits that follow.
C6_FloorAfterDecay == evaporated => AboveFloor

\* a deposit after an evaporation that had to clamp
C6_Witness ==
    /\ evaporated
    /\ last.op = "deposit"
    /\ env.initial_pheromone < PheromoneFloor
    /\ \E edge \in DOMAIN env.pheromone : env.pheromone[edge] = PheromoneFloor

InEdges(edges, edge) == \E i \in 1 .. Len(edges) : edges[i] = edge

IsSimpleEdgeList(edges) ==
    /\ \A i \in 1 .. Len(edges) : edges[i][1] # edges[i][2]
    /\ \A i, j \in 1 .. Len(edges) :
           i # j => edges[i] # edges[j] /\ edges[i] # Reverse(edges[j])

C8_InvalidEdgeRejected ==
    [][(last'.op = "add_edge" /\ last'.args[3] <= 0) =>
          /\ last'.ret = "InvalidEdge"
          /\ env'.graph = env.graph
          /\ env'.pheromone = env.pheromone]_vars

GraphEdges(graph) ==
    {<<u, v>> \in Nodes \X Nodes :
        u \in DOMAIN graph /\ v \in DictKeys(graph[u])}

\* C9: the graph is symmetric with equal distances in both directions, and
\* the pheromone field tracks exactly the directed edges of the graph.
C9_SymmetricGraph ==
    LET edges == GraphEdges(env.graph)
    IN  /\ \A edge \in edges :
               /\ Reverse(edge) \in edges
               /\ DictGet(env.graph[edge[1]], edge[2])
                      = DictGet(env.graph[edge[2]], edge[1])
        /\ DOMAIN env.pheromone = edges

\* a second edge has just been added
C9_Witness ==
    /\ last.op = "add_edge"
    /\ last.args[1] # last.args[2]
    /\ Cardinality(DOMAIN env.pheromone) >= 4

\* C10: a step of a completed ant, or of an ant whose previous step returned
\* stuck, changes nothing of the ant and returns the same status again.
C10_TerminalStepNoOp ==
    [][\A i \in 1 .. Len(ants) :
          (/\ last'.op = "step"
           /\ last'.args = <<i>>
           /\ (ants[i].completed \/ status[i].ret = "stuck"))
              => /\ ants'[i] = ants[i]
                 /\ status'[i].ret = status[i].ret]_vars

\* one ant stepped again after stuck, another stepped again after completed
C10_Witness ==
    \E i, j \in 1 .. Len(ants) :
        /\ status[i] = [prev |-> "stuck", ret |-> "stuck"]
        /\ status[j] = [prev |-> "completed", ret |-> "completed"]

\* C11: an exploring ant whose node is not a food node and has no recorded
\* neighbours, or is absent from the graph, reports "stuck" on a step from
\* that node, and the step leaves its path, path length and visited set as
\* they were.
Neighbors(a) ==
    IF a.current_node \in DOMAIN env.graph
    THEN env.graph[a.current_node]
    ELSE <<>>

Exploring(a) ==
    ~a.completed /\ ~a.returning /\ a.current_node \notin env.food_nodes

C11_NoNeighboursStuck ==
    [][\A i \in 1 .. NumAnts :
          (/\ last'.op = "step"
           /\ last'.args = <<i>>
           /\ Exploring(ants[i])
           /\ Neighbors(ants[i]) = <<>>)
          => /\ last'.ret = "stuck"
             /\ ants'[i].path = ants[i].path
             /\ ants'[i].path_length = ants[i].path_length
             /\ ants'[i].visited = ants[i].visited]_vars

C11_Witness ==
    /\ last.op = "step"
    /\ last.ret = "stuck"
    /\ ants[last.args[1]].current_node \notin DOMAIN env.graph
    /\ ants[last.args[1]].path = <<ants[last.args[1]].nest>>
    /\ ants[last.args[1]].path_length = 0

\* C12: an exploring ant that has unvisited neighbours whose selection
\* weights are all zero reports "stuck" and does not move.
TotalWeight(a) ==
    get_transition_probabilities(a, Neighbors(a), env.pheromone).total

C12_ZeroWeightStuck ==
    [][\A i \in 1 .. NumAnts :
          (/\ last'.op = "step"
           /\ last'.args = <<i>>
           /\ Exploring(ants[i])
           /\ Eligible(Neighbors(ants[i]), ants[i].visited) # <<>>
           /\ TotalWeight(ants[i]) = 0)
          => /\ last'.ret = "stuck"
             /\ ants'[i] = ants[i]]_vars

\* C13: a round in which no ant succeeded applies no deposit, applies decay
\* once, records the infinite sentinel for the round, leaves the overall best
\* as it was, and goes on to the next round (or to the end of the run after
\* the last round).
NoSuccess ==
    /\ ants # <<>>
    /\ \A i \in 1 .. NumAnts : ~(ants[i].found_food /\ ants[i].completed)

DecayedOnce(before, after, rate) ==
    /\ DOMAIN after = DOMAIN before
    /\ \A edge \in DOMAIN before :
           after[edge] = Max((before[edge] * (100 - rate)) \div 100,
                             Unit \div 100)

C13_NoSuccessRound ==
    [][/\ (pc = "collect" /\ NoSuccess)
          => /\ env' = env
             /\ history'.best_path_length =
                    Append(history.best_path_length, Inf)
             /\ history'.overall_best_length = history.overall_best_length
             /\ history'.best_path = history.best_path
             /\ pc' = "evaporate"
       /\ (pc = "evaporate" /\ NoSuccess)
          => /\ DecayedOnce(env.pheromone, env'.pheromone,
                            env.evaporation_rate)
             /\ history' = history
             /\ iteration' = iteration + 1
             /\ pc' = IF iteration' < NumIterations THEN "ants" ELSE "done"
       /\ pc = "ants" => env' = env]_vars

C13_Witness ==
    /\ pc = "step"
    /\ iteration = 1
    /\ history.best_path_length = <<Inf>>
    /\ history.overall_best_length = Inf
    /\ \E edge \in DOMAIN env.pheromone :
           env.pheromone[edge] =
               (DefaultInitialPheromone * (100 - RunEvaporationRate)) \div 100

\* C14: in every round decay is applied exactly once, after every deposit of
\* the round: the field is written only by the deposits of the round's
\* collection and then by one decay, the deposits are always followed by that
\* decay, and nothing writes the field from the decay until the next round's
\* collection.
C14_DecayOncePerRound ==
    [][/\ pc = "collect"
          => /\ pc' = "evaporate"
             /\ \A edge \in DOMAIN env.pheromone :
                    env'.pheromone[edge] >= env.pheromone[edge]
       /\ pc = "evaporate"
          => /\ DecayedOnce(env.pheromone, env'.pheromone,
                            env.evaporation_rate)
             /\ iteration' = iteration + 1
       /\ pc \notin {"collect", "evaporate"}
          => /\ env' = env
             /\ iteration' = iteration]_vars

\* C15: when the first pheromone write of a round is applied every ant of the
\* round is terminal (completed, or exploring with no unvisited neighbour),
\* and the field is not written while the ants of the round are stepped.
Terminal(a) ==
    \/ a.completed
    \/ /\ Exploring(a)
       /\ Eligible(Neighbors(a), a.visited) = <<>>

C15_WritesAfterTerminal ==
    /\ [](pc \in {"collect", "evaporate"}
            => \A i \in 1 .. NumAnts : Terminal(ants[i]))
    /\ [][pc = "step" => env' = env]_vars

C15_Witness ==
    /\ pc = "evaporate"
    /\ \E i, j \in 1 .. NumAnts :
           /\ ants[i].completed
           /\ ants[i].path_length >= 2
           /\ ~ants[j].completed
           /\ status[j].ret = "stuck"

\* C16: one step of an ant leaves the graph, the pheromone field, the food
\* nodes and every other ant as they were; of the stepped ant only the
\* current node, path, path length, visited set and status flags may change.
C16_StepFrame ==
    [][\A i \in 1 .. NumAnts :
          (last'.op = "step" /\ last'.args = <<i>>)
          => /\ env' = env
             /\ \A j \in (1 .. NumAnts) \ {i} : ants'[j] = ants[j]
             /\ ants'[i].id = ants[i].id
             /\ ants'[i].nest = ants[i].nest]_vars

C16_Witness ==
    /\ last.op = "step"
    /\ last.ret = "moving"
    /\ \E j \in (1 .. NumAnts) \ {last.args[1]} :
           /\ Len(ants[j].path) >= 2
           /\ ants[j].visited # ants[last.args[1]].visited

\* C17: get_best_path whose greedy walk comes to a node with no unvisited
\* neighbour before the goal returns the value (None, inf), also for a start
\* node that is not in the graph, and the call leaves the environment as it
\* was.
NeighborsOf(node) ==
    IF node \in DOMAIN env.graph THEN env.graph[node] ELSE <<>>

Phero(u, v) ==
    IF <<u, v>> \in DOMAIN env.pheromone THEN env.pheromone[<<u, v>>] ELSE 0

\* positions in the neighbour list of w[i] of the nodes not among w[1..i]
Unvisited(w, i) ==
    {j \in 1 .. Len(NeighborsOf(w[i])) :
        NeighborsOf(w[i])[j][1] \notin {w[m] : m \in 1 .. i}}

\* w[i + 1] is the first, in neighbour order, of the unvisited neighbours of
\* w[i] with the highest pheromone on (w[i], neighbour)
IsGreedyNext(w, i) ==
    \E j \in Unvisited(w, i) :
        /\ NeighborsOf(w[i])[j][1] = w[i + 1]
        /\ \A m \in Unvisited(w, i) :
               \/ Phero(w[i], NeighborsOf(w[i])[m][1]) < Phero(w[i], w[i + 1])
               \/ /\ Phero(w[i], NeighborsOf(w[i])[m][1]) = Phero(w[i], w[i + 1])
                  /\ m >= j

GreedyDeadEnd(w, from_node, to_node) ==
    /\ w[1] = from_node
    /\ \A i \in 1 .. Len(w) : w[i] # to_node
    /\ \A i \in 1 .. (Len(w) - 1) : IsGreedyNext(w, i)
    /\ Unvisited(w, Len(w)) = {}

NoPathFound == [found |-> FALSE, path |-> <<>>, total_dist |-> Inf]

C17_DeadEndIsNoPathFound ==
    /\ [](last.op = "get_best_path"
            => /\ last.ret.found \/ last.ret = NoPathFound
               /\ \A w \in Walks :
                      GreedyDeadEnd(w, last.args[1], last.args[2])
                      => last.ret = NoPathFound
               /\ (last.args[1] \notin DOMAIN env.graph
                      /\ last.args[1] # last.args[2])
                  => last.ret = NoPathFound)
    /\ [][last'.op = "get_best_path" => env' = env]_vars

C17_Witness ==
    /\ last.op = "get_best_path"
    /\ last.ret = NoPathFound
    /\ last.args[2] \in DOMAIN env.graph
    /\ \E w \in Walks :
           /\ Len(w) >= 2
           /\ GreedyDeadEnd(w, last.args[1], last.args[2])

\* C18: a path returned by get_best_path starts at the start node, ends at
\* the goal node, has pairwise distinct nodes, takes at every node an
\* unvisited neighbour with the highest pheromone on (node, neighbour), and
\* its returned length is the sum of the graph distances along it.
IsGreedyPath(w) ==
    \A i \in 1 .. (Len(w) - 1) :
        \E j \in Unvisited(w, i) :
            /\ NeighborsOf(w[i])[j][1] = w[i + 1]
            /\ \A m \in Unvisited(w, i) :
                   Phero(w[i], NeighborsOf(w[i])[m][1]) <= Phero(w[i], w[i + 1])

RECURSIVE SumDistances(_, _)
SumDistances(w, n) ==
    IF n <= 1
    THEN 0
    ELSE DictGet(NeighborsOf(w[n - 1]), w[n]) + SumDistances(w, n - 1)

C18_GreedyPathShape ==
    (last.op = "get_best_path" /\ last.ret.found)
    => /\ last.ret.path[1] = last.args[1]
       /\ last.ret.path[Len(last.ret.path)] = last.args[2]
       /\ \A i, j \in 1 .. Len(last.ret.path) :
              i # j => last.ret.path[i] # last.ret.path[j]
       /\ IsGreedyPath(last.ret.path)
       /\ last.ret.total_dist = SumDistances(last.ret.path, Len(last.ret.path))

C18_Witness ==
    /\ last.op = "get_best_path"
    /\ last.ret.found
    /\ Len(last.ret.path) = 3
    /\ \E m \in Unvisited(last.ret.path, 1) :
           Phero(last.args[1], NeighborsOf(last.args[1])[m][1])
               < Phero(last.args[1], last.ret.path[2])

\* C19: a round never ends by a fault: computing Q / path_length for the
\* successful ants never divides by zero, also when the nest is a food node.
C19_DepositNeverFaults == pc # "raised"

\* C20: under repeated decay the intensity of an edge never rises, never goes
\* below the floor 0.01, reaches exactly 0.01 after finitely many decays and
\* stays there; checked for each drawn rate and start, among them rate 0.2
\* from intensity 1.0.
AtFloor == \A edge \in DOMAIN env.pheromone : env.pheromone[edge] = Unit \div 100

C20_DecayConverges ==
    /\ [](\A edge \in DOMAIN env.pheromone :
              env.pheromone[edge] >= Unit \div 100)
    /\ [][\A edge \in DOMAIN env.pheromone :
              env'.pheromone[edge] <= env.pheromone[edge]]_vars
    /\ <>AtFloor
    /\ [][AtFloor => AtFloor']_vars

C20_Witness ==
    /\ env.evaporation_rate = 20
    /\ env.initial_pheromone = Unit
    /\ last.op = "evaporate"
    /\ DOMAIN env.pheromone = {<<0, 1>>, <<1, 0>>}
    /\ AtFloor

\* C21 as stated: the decay of a round without a successful ant multiplies
\* every intensity by (1 - evaporation_rate) and changes nothing else, so
\* the ratio of any two intensities stays what it was.
Scaled(p, rate) == (p * (100 - rate)) \div 100

C21_UniformFactor ==
    [][last'.op = "evaporate"
          => \A edge \in DOMAIN env.pheromone :
                 env'.pheromone[edge] =
                     Scaled(env.pheromone[edge], env.evaporation_rate)]_vars

\* C21 amended: the decay of a round without a successful ant turns every
\* intensity p into max(0.01, p * (1 - evaporation_rate)): the edges whose
\* scaled intensity is at least 0.01 are all multiplied by the same factor,
\* the others are set to 0.01, and the set of tracked edges stays the same.
C21_UniformFactorAboveFloor ==
    [][last'.op = "evaporate"
          => /\ DOMAIN env'.pheromone = DOMAIN env.pheromone
             /\ \A edge \in DOMAIN env.pheromone :
                    IF Scaled(env.pheromone[edge], env.evaporation_rate)
                           >= Unit \div 100
                    THEN env'.pheromone[edge] =
                             Scaled(env.pheromone[edge], env.evaporation_rate)
                    ELSE env'.pheromone[edge] = Unit \div 100]_vars

\* a decay has just clamped one edge while another is still above the floor
C21_Witness ==
    /\ last.op = "evaporate"
    /\ \E e1, e2 \in DOMAIN env.pheromone :
           /\ env.pheromone[e1] = Unit \div 100
           /\ env.pheromone[e2] > Unit \div 100
           /\ Scaled(env.pheromone[e2], env.evaporation_rate) < Unit \div 100

\* the position of the returned neighbour in the list, and cum(i) compared
\* with r = k / RGrid for the probabilities weight / total (weight itself
\* when the total is 0)
ReturnedIndex ==
    CHOOSE i \in 1 .. Len(last.args[1].weights) :
        last.args[1].weights[i][1] = last.ret

Denominator == IF last.args[1].total > 0 THEN last.args[1].total ELSE 1

CumAtLeastR(i) ==
    SumWeights(last.args[1].weights, i) * RGrid >= last.args[2] * Denominator

CumBelowR(i) ==
    SumWeights(last.args[1].weights, i) * RGrid < last.args[2] * Denominator

FirstReaching ==
    /\ (\E i \in 1 .. Len(last.args[1].weights) : CumAtLeastR(i))
       => /\ CumAtLeastR(ReturnedIndex)
          /\ \A j \in 1 .. (ReturnedIndex - 1) : ~CumAtLeastR(j)
    /\ (\A i \in 1 .. Len(last.args[1].weights) : ~CumAtLeastR(i))
       => ReturnedIndex = Len(last.args[1].weights)

\* C22 as stated: select_next_node returns the first neighbour whose
\* cumulative sum is >= r, the last one when none is; so it returns
\* neighbour i exactly for r in (cum(i-1), cum(i)], and never a neighbour of
\* probability zero when the probabilities sum to 1.
C22_SelectIntervals ==
    last.op = "select_next_node"
    => /\ FirstReaching
       /\ last.args[1].total > 0
          => /\ CumBelowR(ReturnedIndex - 1)
             /\ CumAtLeastR(ReturnedIndex)
             /\ last.args[1].weights[ReturnedIndex][2] > 0

\* C22 amended: select_next_node returns the first neighbour whose
\* cumulative sum is >= r, the last one when none is; for r > 0 and
\* probabilities that sum to 1 it returns neighbour i exactly for r in
\* (cum(i-1), cum(i)] and never a neighbour of probability zero; for r = 0 it
\* returns the first neighbour of the list whatever its probability.
C22_SelectIntervalsPositiveR ==
    last.op = "select_next_node"
    => /\ FirstReaching
       /\ (last.args[1].total > 0 /\ last.args[2] > 0)
          => /\ CumBelowR(ReturnedIndex - 1)
             /\ CumAtLeastR(ReturnedIndex)
             /\ last.args[1].weights[ReturnedIndex][2] > 0
       /\ last.args[2] = 0 => ReturnedIndex = 1

\* r = 0 has returned a first neighbour of probability zero
C22_Witness ==
    /\ last.op = "select_next_node"
    /\ last.args[2] = 0
    /\ last.args[1].total > 0
    /\ Len(last.args[1].weights) >= 2
    /\ last.args[1].weights[1][2] = 0
    /\ last.ret = last.args[1].weights[1][1]

\* C23: completed implies returning and returning implies found_food in every
\* state; no step turns one of these flags from true to false (only reset
\* does); an ant whose last step returned "stuck" returns "stuck" on every
\* later step and neither finds food nor completes.
IsResetOf(i) == last'.op = "reset" /\ last'.args = <<i>>

C23_StatusMovesForward ==
    /\ [](\A i \in 1 .. NumAnts :
              /\ ants[i].completed => ants[i].returning
              /\ ants[i].returning => ants[i].found_food)
    /\ [][\A i \in 1 .. NumAnts :
              ~IsResetOf(i)
              => /\ ants[i].found_food => ants'[i].found_food
                 /\ ants[i].returning => ants'[i].returning
                 /\ ants[i].completed => ants'[i].completed
                 /\ status[i].ret = "stuck"
                    => /\ status'[i].ret = "stuck"
                       /\ ~ants'[i].found_food
                       /\ ~ants'[i].completed]_vars

C23_Witness ==
    \E i, j \in 1 .. NumAnts :
        /\ ants[i].completed
        /\ ants[i].path_length > 0
        /\ status[i].prev = "completed"
        /\ status[j].ret = "stuck"
        /\ status[j].prev = "stuck"

\* C24: on a graph of n nodes an exploring ant has made at most n - 1 moves,
\* every move adds one new node to visited, and the step of an exploring ant
\* that has made n - 1 moves detects food or reports "stuck": the forward
\* phase ends within n steps.
NumGraphNodes == Cardinality(DOMAIN env.graph)

IsStepOf(i) == last'.op = "step" /\ last'.args = <<i>>

C24_ForwardPhaseBounded ==
    /\ [](\A i \in 1 .. NumAnts :
              ~ants[i].returning => Len(ants[i].path) <= NumGraphNodes)
    /\ [][\A i \in 1 .. NumAnts :
              (IsStepOf(i) /\ ~ants[i].returning /\ ~ants[i].completed)
              => /\ last'.ret \in {"moving", "found_food", "stuck"}
                 /\ last'.ret = "moving"
                    => /\ Len(ants'[i].path) = Len(ants[i].path) + 1
                       /\ Cardinality(ants'[i].visited)
                              = Cardinality(ants[i].visited) + 1
                 /\ Len(ants[i].path) = NumGraphNodes
                    => last'.ret \in {"found_food", "stuck"}]_vars

C24_Witness ==
    /\ last.op = "step"
    /\ last.ret = "found_food"
    /\ NumGraphNodes = 3
    /\ Len(forward[last.args[1]]) = 3

\* C25: the stepping loop of a round runs at most max_steps sweeps, steps in
\* a sweep only ants that are neither completed nor stuck, one step each, and
\* once every ant is completed or stuck no ant is stepped again in the round.
AllTerminal ==
    /\ ants # <<>>
    /\ \A i \in 1 .. NumAnts :
           ants[i].completed \/ status[i].ret = "stuck"

C25_LoopStepsNonTerminalOnly ==
    /\ [](pc = "step" => sweep < MaxSteps(num_nodes))
    /\ [][(pc = "step" /\ last'.op = "step")
              => /\ last'.args = <<cursor>>
                 /\ cursor' = cursor + 1
                 /\ ~ants[cursor].completed
                 /\ status[cursor].ret # "stuck"]_vars
    /\ [][(pc = "step" /\ AllTerminal) => last'.op # "step"]_vars

\* C26: a returning ant away from the nest loses exactly the last node of its
\* path at each step and stands on the new last node; a returning ant at the
\* nest is completed by its next step; so an ant whose forward path had k
\* edges is completed by the (k+1)-th step after the one that found food;
\* and the current node is always the last node of the path.
C26_ReturnPopsOnePerStep ==
    /\ [](\A i \in 1 .. NumAnts :
              /\ ants[i].current_node = ants[i].path[Len(ants[i].path)]
              /\ (ants[i].returning /\ ~ants[i].completed)
                 => /\ Len(ants[i].path) <= Len(forward[i])
                    /\ ants[i].path = SubSeq(forward[i], 1, Len(ants[i].path))
                    /\ (ants[i].current_node = ants[i].nest)
                           <=> (Len(ants[i].path) = 1))
    /\ [][\A i \in 1 .. NumAnts :
              (IsStepOf(i) /\ ants[i].returning /\ ~ants[i].completed)
              => IF ants[i].current_node = ants[i].nest
                 THEN /\ ants'[i].completed
                      /\ last'.ret = "completed"
                 ELSE /\ ants'[i].path =
                             SubSeq(ants[i].path, 1, Len(ants[i].path) - 1)
                      /\ ~ants'[i].completed
                      /\ last'.ret = "returning"]_vars

C26_Witness ==
    \E i \in 1 .. NumAnts :
        /\ ants[i].completed
        /\ Len(forward[i]) = 3
        /\ status[i].prev = "returning"
        /\ status[i].ret = "completed"
        /\ ants[i].path = <<ants[i].nest>>

\* C27: what a round records and deposits is determined by the ants that
\* found food and completed: the round's best length is the least of their
\* path lengths, its mean length is their mean, the overall best is lowered
\* only to that least length, and only edges on their paths gain pheromone;
\* an ant that did not reach food contributes to none of these.
ReachedGoal == {i \in 1 .. NumAnts : ants[i].found_food /\ ants[i].completed}

LeastLength(S) ==
    CHOOSE m \in {ants[i].path_length : i \in S} :
        \A i \in S : m <= ants[i].path_length

RECURSIVE TotalLength(_)
TotalLength(S) ==
    IF S = {}
    THEN 0
    ELSE LET i == CHOOSE j \in S : TRUE
         IN  ants[i].path_length + TotalLength(S \ {i})

OnPathOf(edge, i) ==
    \E n \in 1 .. (Len(ants[i].path) - 1) :
        \/ edge = <<ants[i].path[n], ants[i].path[n + 1]>>
        \/ edge = <<ants[i].path[n + 1], ants[i].path[n]>>

C27_OnlyGoalReachersCount ==
    [][pc = "collect"
          => IF ReachedGoal = {}
             THEN /\ env' = env
                  /\ history'.best_path_length =
                         Append(history.best_path_length, Inf)
                  /\ history'.avg_path_length =
                         Append(history.avg_path_length, Inf)
                  /\ history'.overall_best_length =
                         history.overall_best_length
             ELSE /\ history'.best_path_length =
                         Append(history.best_path_length,
                                LeastLength(ReachedGoal))
                  /\ history'.avg_path_length =
                         Append(history.avg_path_length,
                                (TotalLength(ReachedGoal) * Unit)
                                    \div Cardinality(ReachedGoal))
                  /\ history'.overall_best_length =
                         IF LeastLength(ReachedGoal)
                                < history.overall_best_length
                         THEN LeastLength(ReachedGoal)
                         ELSE history.overall_best_length
                  /\ \A edge \in DOMAIN env.pheromone :
                         env'.pheromone[edge] # env.pheromone[edge]
                         => \E i \in ReachedGoal : OnPathOf(edge, i)]_vars

\* a round with one ant back from food and a stuck ant of another path length
C27_Witness ==
    /\ pc = "evaporate"
    /\ \E i, j \in 1 .. NumAnts :
           /\ i \in ReachedGoal
           /\ j \notin ReachedGoal
           /\ status[j].ret = "stuck"
           /\ ants[j].path_length # ants[i].path_length
           /\ history.best_path_length[Len(history.best_path_length)]
                  = ants[i].path_length
           /\ history.avg_path_length[Len(history.avg_path_length)]
                  = ants[i].path_length * Unit

\* C28: the ants of every round are newly constructed ants at the nest
\* whatever the earlier rounds did, and reset applied to an ant in any state
\* gives exactly the newly constructed ant of the same id and nest.
C28_FreshAntsAndReset ==
    /\ [](\A i \in 1 .. Len(ants) :
              reset(ants[i]) = NewAnt(ants[i].id, ants[i].nest))
    /\ [][pc = "ants"
              => /\ Len(ants') = NumAnts
                 /\ \A i \in 1 .. NumAnts :
                        ants'[i] = NewAnt(i - 1, env.nest)]_vars

\* the second round starts after a round that left an ant completed
C28_Witness ==
    /\ iteration = 1
    /\ pc = "step"
    /\ sweep = 0
    /\ cursor = 1
    /\ history.best_path_length # <<>>
    /\ history.best_path_length[1] < Inf
    /\ \A i \in 1 .. NumAnts : ants[i] = NewAnt(i - 1, env.nest)

Untracked(edge) ==
    /\ edge \notin DOMAIN env.pheromone
    /\ Reverse(edge) \notin DOMAIN env.pheromone

C30_TrackedEdgesFixed ==
    [][/\ last'.op \in {"evaporate", "deposit"}
          => DOMAIN env'.pheromone = DOMAIN env.pheromone
       /\ (/\ last'.op = "deposit"
           /\ \A n \in 1 .. Len(last'.args[1]) : Untracked(last'.args[1][n]))
          => env' = env]_vars

\* a deposit naming an untracked edge has been made on a field with edges
C30_Witness ==
    /\ last.op = "deposit"
    /\ DOMAIN env.pheromone # {}
    /\ last.args[1] # <<>>
    /\ \A n \in 1 .. Len(last.args[1]) : Untracked(last.args[1][n])

\* C31: in every reachable state, also after construction and before the
\* first decay, and for every configured initial_pheromone > 0, the intensity
\* of every tracked edge is at least the pheromone floor.
C31_FloorInEveryState ==
    env.initial_pheromone > 0
    => \A edge \in DOMAIN env.pheromone :
           env.pheromone[edge] >= PheromoneFloor

\* C32: with max_steps = 3 * num_nodes, when the stepping loop has ended
\* every ant that reached a food node is completed, so the ants selected by
\* found_food and completed are exactly those that reached food, and no ant
\* is still returning.
LoopEnded == pc \in {"collect", "evaporate", "raised", "done"}

C32_GoalReachersCompleted ==
    (LoopEnded /\ ants # <<>>)
    => /\ \A i \in 1 .. NumAnts :
              (\/ ants[i].found_food
               \/ ants[i].returning
               \/ forward[i] # <<>>
               \/ ants[i].current_node \in env.food_nodes)
              => ants[i].completed
       /\ ReachedGoal = {i \in 1 .. NumAnts : forward[i] # <<>>}

\* the loop has ended with an ant that walked the longest simple path to the
\* food, num_nodes - 1 edges, and came all the way back
C32_Witness ==
    /\ pc = "collect"
    /\ num_nodes = 3
    /\ \E i \in 1 .. NumAnts :
           /\ Len(forward[i]) = num_nodes
           /\ ants[i].completed
           /\ ants[i].found_food

\* C33: while an ant has not started returning, path_length is the sum of
\* the graph distances of the consecutive pairs of its path; once it returns,
\* path_length stays the length of the whole forward path while the path
\* gets shorter.
C33_PathLengthIsSumOfDistances ==
    \A i \in 1 .. Len(ants) :
        IF ~ants[i].returning
        THEN ants[i].path_length
                 = SumDistances(ants[i].path, Len(ants[i].path))
        ELSE /\ ants[i].path_length
                    = SumDistances(forward[i], Len(forward[i]))
             /\ Len(ants[i].path) <= Len(forward[i])
             /\ ants[i].path = SubSeq(forward[i], 1, Len(ants[i].path))

\* an ant on its way back over an edge of distance 2: its path is shorter
\* than the forward path, whose full length it still carries
C33_Witness ==
    \E i \in 1 .. Len(ants) :
        /\ ants[i].returning
        /\ Len(ants[i].path) < Len(forward[i])
        /\ ants[i].path_length > Len(forward[i]) - 1
        /\ ants[i].path_length
               > SumDistances(ants[i].path, Len(ants[i].path))

\* C34: every consecutive pair of an ant's path is an edge of the graph and
\* is tracked in the pheromone field in both directions, so a deposit along
\* the path meets no untracked edge, and every edge an exploring ant weighs
\* is tracked, so the default intensity is never used.
TrackedGraphEdge(u, v) ==
    /\ v \in DictKeys(NeighborsOf(u))
    /\ <<u, v>> \in DOMAIN env.pheromone
    /\ <<v, u>> \in DOMAIN env.pheromone

C34_PathEdgesTracked ==
    \A i \in 1 .. Len(ants) :
        /\ \A n \in 1 .. (Len(ants[i].path) - 1) :
               TrackedGraphEdge(ants[i].path[n], ants[i].path[n + 1])
        /\ \A n \in 1 .. (Len(forward[i]) - 1) :
               TrackedGraphEdge(forward[i][n], forward[i][n + 1])
        /\ \A v \in DictKeys(Neighbors(ants[i])) :
               <<ants[i].current_node, v>> \in DOMAIN env.pheromone

\* an ant has walked two edges and stands on a node with neighbours to weigh
C34_Witness ==
    \E i \in 1 .. Len(ants) :
        /\ Len(ants[i].path) = 3
        /\ ~ants[i].returning
        /\ Neighbors(ants[i]) # <<>>
        /\ env.pheromone # <<>>

\* C35: an ant never moves away from a food node: while it has not started
\* returning, a food node is on its path only as the last element.
C35_FoodOnlyAtPathEnd ==
    \A i \in 1 .. Len(ants) :
        ~ants[i].returning
        => \A n \in 1 .. (Len(ants[i].path) - 1) :
               ants[i].path[n] \notin env.food_nodes

\* an ant stands on the food node, not yet returning, with a neighbour it
\* has not visited and could move on to
C35_Witness ==
    \E i \in 1 .. Len(ants) :
        /\ ~ants[i].returning
        /\ ants[i].current_node \in env.food_nodes
        /\ Len(ants[i].path) = 2
        /\ DictKeys(Neighbors(ants[i])) \ ants[i].visited # {}

\* C36: the overall best length is the minimum of the per-round best
\* lengths recorded so far (infinity when no round succeeded), every round
\* appends one entry to the list of bests and one to the list of means, and
\* in a successful round the mean is at least the best. This is the last
\* part, for the mean as the floats of line 59 compute it.
C36_MeanAtLeastBest ==
    last.op = "mean" => last.ret.avg >= last.ret.best

RoundsRecorded ==
    iteration + (IF pc \in {"evaporate", "raised"} THEN 1 ELSE 0)

MinOf(bests) ==
    IF bests = <<>>
    THEN Inf
    ELSE CHOOSE m \in {bests[n] : n \in 1 .. Len(bests)} :
             \A n \in 1 .. Len(bests) : m <= bests[n]

\* the parts of C36 about the two lists and the overall best, in the run,
\* where path lengths are whole numbers and the mean is exact to 1 / Unit
C36_HistoryRecords ==
    /\ Len(history.best_path_length) = RoundsRecorded
    /\ Len(history.avg_path_length) = RoundsRecorded
    /\ history.overall_best_length = MinOf(history.best_path_length)
    /\ \A n \in 1 .. Len(history.best_path_length) :
           history.best_path_length[n] = Inf
           <=> history.avg_path_length[n] = Inf

\* the number of times the while loop of get_best_path runs its body on the
\* way from current to to_node, the nodes of visited being closed
RECURSIVE Iterations(_, _, _)
Iterations(visited, current, to_node) ==
    IF current = to_node
    THEN 0
    ELSE LET best_next == BestNextFrom(NeighborsOf(current), 1, visited,
                                       current, env.pheromone,
                                       <<(<<>>), -1>>)[1]
         IN  IF best_next = <<>>
             THEN 1
             ELSE 1 + Iterations(visited \cup {best_next[1]}, best_next[1],
                                 to_node)

IterationsOfCall ==
    Iterations({last.args[1]}, last.args[1], last.args[2])

StartIsGoalPath ==
    last.args[1] = last.args[2]
    => last.ret = [found |-> TRUE, path |-> <<last.args[1]>>,
                   total_dist |-> 0]

\* C37: get_best_path returns for every graph, field, start and goal: it
\* runs its loop body at most (number of nodes of the graph) times, and it
\* returns the one-node path with length 0 when the start is the goal.
C37_GreedyTerminates ==
    last.op = "get_best_path"
    => /\ IterationsOfCall <= Cardinality(DOMAIN env.graph)
       /\ StartIsGoalPath

\* C37, amended: the start node counts as a node also when the graph does
\* not hold it; a walk that finds the goal ran the body once per node it
\* added, fewer times than there are nodes.
C37_GreedyTerminatesCountingStart ==
    last.op = "get_best_path"
    => /\ IterationsOfCall
              <= Cardinality(DOMAIN env.graph \cup {last.args[1]})
       /\ last.ret.found
              => /\ IterationsOfCall = Len(last.ret.path) - 1
                 /\ IterationsOfCall
                        < Cardinality(DOMAIN env.graph \cup {last.args[1]})
       /\ StartIsGoalPath

\* a walk from a node the graph does not hold: one turn of the loop, no path
C37_Witness ==
    /\ last.op = "get_best_path"
    /\ last.args[1] \notin DOMAIN env.graph
    /\ last.args[1] # last.args[2]
    /\ IterationsOfCall = 1
    /\ ~last.ret.found

====
